---- MODULE Spec2Model ----
(***************************************************************************)
(* Model of the partition-scoped document repository of unsonnet/nativo    *)
(* (api/src/shared/database/base.py, repository.py), of the entity builders *)
(* (api/src/shared/models/request.py) and of the report-creation saga that *)
(* spec.md section 4.3 describes on top of them.                           *)
(*                                                                         *)
(* An entity is the mapping model_dump(exclude_none=True) gives: a field   *)
(* that is None is not in the mapping's domain.  A stored item is the      *)
(* mapping of the attributes the table holds for one id.                   *)
(***************************************************************************)
EXTENDS Integers, Sequences, FiniteSets, TLC

VARIABLES
    store,      \* table name -> (id -> stored item)
    clock,      \* what current_timestamp() returns
    focus,      \* the repository a sequence of single calls is made on
    last,       \* the call in progress: arguments, table before, result
    pc,         \* saga -> its state
    built,      \* saga -> the entities built from its request
    err,        \* saga -> the step whose failure it surfaces
    comp,       \* saga -> the compensations it ran, with their results
    nextId,     \* the ids generate_id() has handed out so far
    pager,      \* a caller paging through list()
    manager,    \* DatabaseManager's class attributes and the accessor calls
                \* in progress
    inflight    \* the report requests being handled and their responses

crudVars == <<focus, last>>
sagaVars == <<pc, built, err, comp, nextId>>
vars == <<store, clock, focus, last, pc, built, err, comp, nextId, pager,
          manager, inflight>>

\* ------------------------------------------------------------------ bounds
MaxClock == 1
MaxImages == 2
MaxItems == 3
MaxLimit == 2
MaxLen == 2

Ids == {"i1", "i2"}
PartVals == {"a", "b"}

\* Python's None, as an argument or a result (never a member of PartVals).
None == "<None>"
Parts == PartVals \cup {None}

\* ---------------------------------------------------------- entity schemas
Repos == {"Image", "Product", "Report"}

\* The table each repository's get_table names.  The handle cache of
\* DatabaseManager behind it is not part of this table-level model: every
\* accessor is taken to hand out its table.
get_table(r) ==
    CASE r = "Image" -> "images"
      [] r = "Product" -> "products"
      [] r = "Report" -> "reports"

Tables == {get_table(r) : r \in Repos}

modifiable(r) ==
    CASE r = "Image" -> {"mask", "grid"}
      [] r = "Product" -> {"brand", "series", "model", "images", "category",
                           "formats", "analysis"}
      [] r = "Report" -> {"title", "reference", "favorites"}

partition_key(r) ==
    CASE r = "Image" -> "product"
      [] r = "Report" -> "author"
      [] OTHER -> None

\* The fields of each schema that the model carries (Product.series, category
\* and formats are left out: no operation below reads them).
Fields(r) ==
    CASE r = "Image" -> {"id", "image", "mask", "grid", "product",
                         "created_at", "updated_at"}
      [] r = "Product" -> {"id", "brand", "model", "images",
                           "created_at", "updated_at"}
      [] r = "Report" -> {"id", "title", "author", "reference", "favorites",
                          "created_at", "updated_at"}

\* Fields without a default: schema(**item) raises when one is missing.
Required(r) ==
    CASE r = "Image" -> {"id", "image", "product"}
      [] r = "Product" -> {"id"}
      [] r = "Report" -> {"id", "author"}

\* Fields typed float (Image.Affine's Dict[str, float]).
FloatFields == {"grid"}

PyFloat(n) == [t |-> "float", v |-> n]
Decimal(n) == [t |-> "Decimal", v |-> n]
PyInt(n) == [t |-> "int", v |-> n]

\* ------------------------------------------------------------ numeric codec
\* to_decimals: an int or float leaf becomes Decimal(str(leaf)); every other
\* leaf is returned as it is.
to_decimals(entry) ==
    [k \in DOMAIN entry |->
        IF k \in FloatFields THEN Decimal(entry[k].v) ELSE entry[k]]

\* from_decimals: a Decimal leaf becomes int when obj % 1 == 0 (the model's
\* numbers are whole), every other leaf is returned as it is.
from_decimals(item) ==
    [k \in DOMAIN item |->
        IF k \in FloatFields /\ item[k].t = "Decimal"
        THEN PyInt(item[k].v) ELSE item[k]]

\* ------------------------------------------------------------- the tables
NoTable == <<>>

Put(T, id, entry) ==
    [i \in (DOMAIN T) \cup {id} |-> IF i = id THEN entry ELSE T[i]]

Remove(T, id) == [i \in (DOMAIN T) \ {id} |-> T[i]]

item_get(item, k) == IF k \in DOMAIN item THEN item[k] ELSE None

Truthy(p) == p # None /\ p # ""

\* ConditionExpression Attr(partition_key).eq(partition) on the item of `id`.
ConditionHolds(r, T, id, partition) ==
    /\ id \in DOMAIN T
    /\ partition_key(r) \in DOMAIN T[id]
    /\ T[id][partition_key(r)] = partition

Restrict(f, S) == [k \in (DOMAIN f) \cap S |-> f[k]]

\* schema(**item): pydantic validation; absent fields take their defaults
\* (None stays absent, title/reference/model default to "", created_at to
\* the current time); a float field accepts an int.
schema_ok(r, item) == Required(r) \subseteq DOMAIN item

schema(r, item, now) ==
    LET dflt == CASE r = "Report" -> [title |-> "", reference |-> "",
                                       created_at |-> now]
                  [] r = "Product" -> [model |-> "", created_at |-> now]
                  [] OTHER -> [created_at |-> now]
        coerced == [k \in DOMAIN item |->
                      IF k \in FloatFields THEN PyFloat(item[k].v) ELSE item[k]]
    IN coerced @@ dflt

\* --------------------------------------------------- BaseRepository (CRUD)
\* Each operation is a function of the table, its arguments, the current
\* time and `ok` (FALSE: the store call raises a transport/service error),
\* giving the table afterwards, the returned value and the line it logs.
Outcome(T, res, ent, log) == [tbl |-> T, res |-> res, ent |-> ent, log |-> log]

entry_of(r, e, partition) ==
    LET entry == to_decimals(e)
    IN IF partition_key(r) # None /\ Truthy(partition)
       THEN [entry EXCEPT ![partition_key(r)] = partition]
       ELSE entry

create(r, T, e, partition, ok) ==
    IF ok
    THEN Outcome(Put(T, e.id, entry_of(r, e, partition)), TRUE, <<>>, "created")
    ELSE Outcome(T, FALSE, <<>>, "failed")

\* A read that skips the comparison of the stored partition value.
read_unscoped(r, T, id, partition, now, ok) ==
    IF ~ok \/ id \notin DOMAIN T \/ ~schema_ok(r, T[id])
    THEN Outcome(T, FALSE, <<>>, "failed")
    ELSE Outcome(T, TRUE, <<schema(r, from_decimals(T[id]), now)>>, "read")

read(r, T, id, partition, now, ok) ==
    IF ~ok \/ id \notin DOMAIN T
    THEN Outcome(T, FALSE, <<>>, "failed")
    ELSE IF partition_key(r) # None
            /\ item_get(T[id], partition_key(r)) # partition
    THEN Outcome(T, FALSE, <<>>, "denied")
    ELSE IF ~schema_ok(r, T[id])
    THEN Outcome(T, FALSE, <<>>, "failed")
    ELSE Outcome(T, TRUE, <<schema(r, from_decimals(T[id]), now)>>, "read")

\* An update that stamps updated_at even when no modifiable field is set.
update_stamps_empty(r, T, e, partition, now, ok) ==
    LET data == Restrict(e, modifiable(r))
        old == IF e.id \in DOMAIN T THEN T[e.id] ELSE [id |-> e.id]
        new == ("updated_at" :> now) @@ data @@ old
    IN IF ~ok \/ (DOMAIN data) \cap FloatFields # {}
       THEN Outcome(T, FALSE, <<>>, "failed")
       ELSE IF partition_key(r) # None /\ ~ConditionHolds(r, T, e.id, partition)
       THEN Outcome(T, FALSE, <<>>, "denied")
       ELSE Outcome(Put(T, e.id, new), TRUE, <<>>, "updated")

\* An update that writes every set field of the entity, modifiable or not.
update_unfiltered(r, T, e, partition, now, ok) ==
    LET data == Restrict(e, Fields(r) \ {"id"})
        old == IF e.id \in DOMAIN T THEN T[e.id] ELSE [id |-> e.id]
        new == ("updated_at" :> now) @@ data @@ old
    IN IF DOMAIN Restrict(e, modifiable(r)) = {}
       THEN Outcome(T, FALSE, <<>>, "unchanged")
       ELSE IF ~ok \/ (DOMAIN data) \cap FloatFields # {}
       THEN Outcome(T, FALSE, <<>>, "failed")
       ELSE IF partition_key(r) # None /\ ~ConditionHolds(r, T, e.id, partition)
       THEN Outcome(T, FALSE, <<>>, "denied")
       ELSE Outcome(Put(T, e.id, new), TRUE, <<>>, "updated")

\* The update's values are handed to update_item as model_dump gives them
\* (no to_decimals): the client's serializer raises TypeError on a float.
update(r, T, e, partition, now, ok) ==
    LET data == Restrict(e, modifiable(r))
        old == IF e.id \in DOMAIN T THEN T[e.id] ELSE [id |-> e.id]
        new == ("updated_at" :> now) @@ data @@ old
    IN IF DOMAIN data = {}
       THEN Outcome(T, FALSE, <<>>, "unchanged")
       ELSE IF ~ok \/ (DOMAIN data) \cap FloatFields # {}
       THEN Outcome(T, FALSE, <<>>, "failed")
       ELSE IF partition_key(r) # None /\ ~ConditionHolds(r, T, e.id, partition)
       THEN Outcome(T, FALSE, <<>>, "denied")
       ELSE Outcome(Put(T, e.id, new), TRUE, <<>>, "updated")

delete(r, T, id, partition, ok) ==
    IF ~ok
    THEN Outcome(T, FALSE, <<>>, "failed")
    ELSE IF partition_key(r) # None /\ ~ConditionHolds(r, T, id, partition)
    THEN Outcome(T, FALSE, <<>>, "denied")
    ELSE Outcome(Remove(T, id), TRUE, <<>>, "deleted")

\* ------------------------------------------------------- callers' inputs
Opt(k, S) == {<<>>} \cup {k :> v : v \in S}

\* The entities a caller can hand to the repository at time `now`.
Entities(r, now) ==
    CASE r = "Image" ->
           {[id |-> i, image |-> "img", product |-> p, created_at |-> now]
              @@ m @@ g :
              i \in Ids, p \in PartVals,
              m \in Opt("mask", {"m1"}), g \in Opt("grid", {PyFloat(1)})}
      [] r = "Report" ->
           {[id |-> i, title |-> t, author |-> a, reference |-> "p1",
             created_at |-> now] @@ f :
              i \in Ids, t \in {"", "t1"}, a \in PartVals,
              f \in Opt("favorites", {<<"p1">>})}
      [] r = "Product" ->
           {[id |-> i, model |-> m, created_at |-> now] @@ b :
              i \in Ids, m \in {"", "m1"}, b \in Opt("brand", {"b1"})}

Idle == [op |-> "idle"]

\* What a caller and the log hold after a call: the arguments, the table as
\* it was when the call started, the time it read and whether the store
\* answered (ok), and the returned value.
Call(op, r, id, partition, e, before, now, ok, o) ==
    [op |-> op, repo |-> r, id |-> id, part |-> partition, arg |-> e,
     before |-> before, now |-> now, ok |-> ok,
     res |-> o.res, ent |-> o.ent, log |-> o.log]

\* ---------------------------------------------------------------- actions
Procs == {"s1", "s2"}

NoPager == [status |-> "new"]

\* DatabaseManager as the class body leaves it: _dynamodb and the table
\* attributes it declares are None; _images_table is not declared.  No
\* accessor call is in progress.
Accessors == {"users", "reports", "products", "images"}

Declared == {"users", "reports", "products"}

Undeclared == [t |-> "undeclared"]

NoHandle == [t |-> "NoneType"]

NoManager ==
    [dynamodb |-> FALSE,
     tables |-> [a \in Accessors |->
                   IF a \in Declared THEN NoHandle ELSE Undeclared],
     made |-> [a \in Accessors |-> 0],
     calls |-> [p \in Procs |-> [at |-> "idle"]]]

\* No report request has been received.
NoRequests == [calls |-> [p \in Procs |-> [at |-> "idle"]], overlap |-> FALSE]

SagaIdle ==
    /\ pc = [p \in Procs |-> "NEW"]
    /\ built = [p \in Procs |-> <<>>]
    /\ err = [p \in Procs |-> None]
    /\ comp = [p \in Procs |-> <<>>]
    /\ nextId = 0

Init ==
    /\ store = [t \in Tables |-> NoTable]
    /\ clock = 0
    /\ focus \in {"Image", "Report"}
    /\ last = Idle
    /\ SagaIdle
    /\ pager = NoPager
    /\ manager = NoManager
    /\ inflight = NoRequests

Tick ==
    /\ clock < MaxClock
    /\ clock' = clock + 1
    /\ UNCHANGED <<store, focus, last, sagaVars, pager, manager, inflight>>

Apply(op, r, id, partition, e, ok, o) ==
    /\ store' = [store EXCEPT ![get_table(r)] = o.tbl]
    /\ last' = Call(op, r, id, partition, e, store[get_table(r)], clock, ok, o)
    /\ UNCHANGED <<clock, focus, sagaVars, pager, manager, inflight>>

Create ==
    /\ last = Idle
    /\ \E e \in Entities(focus, clock), p \in Parts, ok \in BOOLEAN :
          Apply("create", focus, e.id, p, e, ok,
                create(focus, store[get_table(focus)], e, p, ok))

Read ==
    /\ last = Idle
    /\ \E id \in Ids, p \in Parts, ok \in BOOLEAN :
          Apply("read", focus, id, p, <<>>, ok,
                read(focus, store[get_table(focus)], id, p, clock, ok))

Update ==
    /\ last = Idle
    /\ \E e \in Entities(focus, clock), p \in Parts, ok \in BOOLEAN :
          Apply("update", focus, e.id, p, e, ok,
                update(focus, store[get_table(focus)], e, p, clock, ok))

Delete ==
    /\ last = Idle
    /\ \E id \in Ids, p \in Parts, ok \in BOOLEAN :
          Apply("delete", focus, id, p, <<>>, ok,
                delete(focus, store[get_table(focus)], id, p, ok))

\* The caller takes the result; the next call can start.
Return ==
    /\ last # Idle
    /\ last' = Idle
    /\ UNCHANGED <<store, clock, focus, sagaVars, pager, manager, inflight>>

Next == Tick \/ Create \/ Read \/ Update \/ Delete \/ Return

Spec == Init /\ [][Next]_vars

\* ------------------------------------------------ BaseRepository (batches)
\* The attributes of the tables' primary key: read, update and delete
\* address an item by Key={"id": id}.
KeySchema == {"id"}

PutAll(T, entries) ==
    [i \in (DOMAIN T) \cup {x.id : x \in entries} |->
        IF \E x \in entries : x.id = i
        THEN CHOOSE x \in entries : x.id = i
        ELSE T[i]]

RemoveAll(T, ids) == [i \in (DOMAIN T) \ ids |-> T[i]]

Indexes(entities) == 1..Len(entities)

\* The batch writer refuses a batch that names one key twice.
Duplicates(entities) ==
    \E i, j \in Indexes(entities) : i # j /\ entities[i].id = entities[j].id

\* The batch writer sends the buffered requests when the with-block ends and
\* sends again what the store returns unprocessed; `done` are the requests
\* the store had processed when a call raised (all of them: no call raised).
create_batch(r, T, entities, partition, done) ==
    LET written == IF Duplicates(entities) THEN {} ELSE done
        entries == {entry_of(r, entities[j], partition) : j \in written}
    IN Outcome(PutAll(T, entries), written = Indexes(entities), <<>>,
               IF written = Indexes(entities) THEN "created" ELSE "failed")

\* delete_batch builds each key from the id and, for a partitioned schema,
\* the partition field: a key that is not the table's key is refused by the
\* store for the whole batch.
delete_batch(r, T, entities, partition, done) ==
    LET key == {"id"} \cup (IF partition_key(r) # None
                            THEN {partition_key(r)} ELSE {})
        refused == Indexes(entities) # {}
                   /\ (key # KeySchema \/ Duplicates(entities))
        removed == IF refused THEN {} ELSE done
    IN Outcome(RemoveAll(T, {entities[j].id : j \in removed}),
               removed = Indexes(entities), <<>>,
               IF removed = Indexes(entities) THEN "deleted" ELSE "failed")

\* --------------------------------------------- request models: to_db
\* generate_id(): uuid4, taken as never repeating.
FreshIds(from, n) == [j \in 1..n |-> "u" \o ToString(from + j)]

\* request.Image.to_db(product)
image_to_db(img, product, id, now) ==
    [id |-> id, image |-> img.image, product |-> product, created_at |-> now]
      @@ Restrict(img, {"mask", "grid"})

\* request.Product.to_db(): the images first, then the product, then each
\* image's product field is set to the product's id.
product_to_db(req, ids, now) ==
    LET n == Len(req.images)
        images == [j \in 1..n |-> image_to_db(req.images[j], "", ids[j], now)]
        product == [id |-> ids[n + 1], model |-> req.model,
                    images |-> [j \in 1..n |-> req.images[j].image],
                    created_at |-> now] @@ Restrict(req, {"brand"})
    IN [product |-> product,
        images |-> [j \in 1..n |-> [images[j] EXCEPT !.product = product.id]]]

\* request.Report.to_db(author)
report_to_db(req, author, ids, now) ==
    LET ref == product_to_db(req.reference, ids, now)
        n == Len(req.reference.images)
    IN [report |-> [id |-> ids[n + 2], title |-> req.title, author |-> author,
                    reference |-> ref.product.id, created_at |-> now]
                     @@ Restrict(req, {"favorites"}),
        product |-> ref.product,
        images |-> ref.images]

\* The report requests of the model: one to MaxImages images.
Requests ==
    {[title |-> "t1",
      reference |-> [model |-> "m1",
                     images |-> [j \in 1..n |->
                                   [image |-> "blob" \o ToString(j)]]]] :
       n \in 1..MaxImages}

\* ------------------------------------------------- report-creation saga
\* (spec.md 4.3: the orchestration is not among the sources; its steps are
\* those of the specification, over the repository operations above.)
SagaInit ==
    /\ store = [t \in Tables |->
         CASE t = "images" ->
                ("u0i" :> [id |-> "u0i", image |-> "blob0", product |-> "u0p",
                           created_at |-> 0])
           [] t = "products" ->
                ("u0p" :> [id |-> "u0p", model |-> "m0",
                           images |-> <<"blob0">>, created_at |-> 0])
           [] t = "reports" ->
                ("u0r" :> [id |-> "u0r", title |-> "t0", author |-> "a",
                           reference |-> "u0p", created_at |-> 0])]
    /\ clock = 0
    /\ focus = "Report"
    /\ last = Idle
    /\ SagaIdle
    /\ pager = NoPager
    /\ manager = NoManager
    /\ inflight = NoRequests

SagaStep(p, state, error, compensation) ==
    /\ pc' = [pc EXCEPT ![p] = state]
    /\ err' = IF error = None THEN err ELSE [err EXCEPT ![p] = error]
    /\ comp' = [comp EXCEPT ![p] = @ \o compensation]
    /\ UNCHANGED <<clock, focus, last, pager, manager, inflight>>

\* Steps 1-3: build the Image, Product and Report entities.
SagaBuild(p) ==
    /\ pc[p] = "NEW"
    /\ \E req \in Requests, author \in PartVals :
          LET n == Len(req.reference.images)
          IN /\ built' = [built EXCEPT ![p] =
                   report_to_db(req, author, FreshIds(nextId, n + 2), clock)]
             /\ nextId' = nextId + n + 2
    /\ SagaStep(p, "START", None, <<>>)
    /\ UNCHANGED store

\* Step 4: createBatch(images, partition = product.id); on failure abort.
SagaCreateImages(p) ==
    /\ pc[p] = "START"
    /\ \E done \in SUBSET Indexes(built[p].images) :
          LET o == create_batch("Image", store.images, built[p].images,
                                built[p].product.id, done)
          IN /\ store' = [store EXCEPT !.images = o.tbl]
             /\ IF o.res
                THEN SagaStep(p, "IMAGES_CREATED", None, <<>>)
                ELSE SagaStep(p, "ABORTED", "images", <<>>)
    /\ UNCHANGED <<built, nextId>>

\* Step 5: create(product); on failure compensate the images.
SagaCreateProduct(p) ==
    /\ pc[p] = "IMAGES_CREATED"
    /\ \E ok \in BOOLEAN :
          LET o == create("Product", store.products, built[p].product, None, ok)
          IN /\ store' = [store EXCEPT !.products = o.tbl]
             /\ IF o.res
                THEN SagaStep(p, "PRODUCT_CREATED", None, <<>>)
                ELSE SagaStep(p, "ROLLBACK_IMAGES", "product", <<>>)
    /\ UNCHANGED <<built, nextId>>

\* Step 6: create(report, partition = author); on failure compensate the
\* product, then the images.
SagaCreateReport(p) ==
    /\ pc[p] = "PRODUCT_CREATED"
    /\ \E ok \in BOOLEAN :
          LET o == create("Report", store.reports, built[p].report,
                          built[p].report.author, ok)
          IN /\ store' = [store EXCEPT !.reports = o.tbl]
             /\ IF o.res
                THEN SagaStep(p, "REPORT_CREATED", None, <<>>)
                ELSE SagaStep(p, "ROLLBACK_PRODUCT", "report", <<>>)
    /\ UNCHANGED <<built, nextId>>

\* Compensation: delete(product.id).
SagaRollbackProduct(p) ==
    /\ pc[p] = "ROLLBACK_PRODUCT"
    /\ \E ok \in BOOLEAN :
          LET o == delete("Product", store.products, built[p].product.id,
                          None, ok)
          IN /\ store' = [store EXCEPT !.products = o.tbl]
             /\ SagaStep(p, "ROLLBACK_IMAGES", None,
                         <<[step |-> "delete", res |-> o.res, ok |-> ok]>>)
    /\ UNCHANGED <<built, nextId>>

\* A last compensation whose failure is surfaced in place of the failure
\* that started the rollback.
SagaRollbackImages_surfacing(p) ==
    /\ pc[p] = "ROLLBACK_IMAGES"
    /\ \E done \in SUBSET Indexes(built[p].images) :
          LET o == delete_batch("Image", store.images, built[p].images,
                                built[p].product.id, done)
          IN /\ store' = [store EXCEPT !.images = o.tbl]
             /\ SagaStep(p, "ABORTED",
                         IF o.res THEN None ELSE "compensation",
                         <<[step |-> "delete_batch", res |-> o.res,
                            ok |-> done = Indexes(built[p].images)]>>)
    /\ UNCHANGED <<built, nextId>>

\* Compensation: deleteBatch(images, product.id); then the saga has aborted.
SagaRollbackImages(p) ==
    /\ pc[p] = "ROLLBACK_IMAGES"
    /\ \E done \in SUBSET Indexes(built[p].images) :
          LET o == delete_batch("Image", store.images, built[p].images,
                                built[p].product.id, done)
          IN /\ store' = [store EXCEPT !.images = o.tbl]
             /\ SagaStep(p, "ABORTED", None,
                         <<[step |-> "delete_batch", res |-> o.res,
                            ok |-> done = Indexes(built[p].images)]>>)
    /\ UNCHANGED <<built, nextId>>

SagaNext ==
    \E p \in Procs :
       \/ SagaBuild(p)
       \/ SagaCreateImages(p)
       \/ SagaCreateProduct(p)
       \/ SagaCreateReport(p)
       \/ SagaRollbackProduct(p)
       \/ SagaRollbackImages(p)

SagaSpec == SagaInit /\ [][SagaNext]_vars

\* One report creation runs in one handler invocation, which executes its
\* steps one after the other until it returns: a step that can be taken is
\* taken.
SagaProc(p) ==
    \/ SagaBuild(p)
    \/ SagaCreateImages(p)
    \/ SagaCreateProduct(p)
    \/ SagaCreateReport(p)
    \/ SagaRollbackProduct(p)
    \/ SagaRollbackImages(p)

SagaLive == SagaSpec /\ \A p \in Procs : WF_vars(SagaProc(p))

\* ------------------------------------------------- BaseRepository.list
\* The items of one partition in the order of the partition's index with
\* ScanIndexForward=False: newest created_at first.
\* The index read with ScanIndexForward=True: oldest created_at first.
RECURSIVE OldestFirst(_)
OldestFirst(S) ==
    IF S = {} THEN <<>>
    ELSE LET x == CHOOSE x \in S : \A y \in S : x.created_at <= y.created_at
         IN <<x>> \o OldestFirst(S \ {x})

RECURSIVE NewestFirst(_)
NewestFirst(S) ==
    IF S = {} THEN <<>>
    ELSE LET x == CHOOSE x \in S : \A y \in S : x.created_at >= y.created_at
         IN <<x>> \o NewestFirst(S \ {x})

\* A query without the key condition: every item of the table.
Partition_unscoped(r, T, partition) == {T[i] : i \in DOMAIN T}

Partition(r, T, partition) ==
    {T[i] : i \in {j \in DOMAIN T : item_get(T[j], partition_key(r)) = partition}}

Min(a, b) == IF a < b THEN a ELSE b

\* Query on the index: an ExclusiveStartKey (start, empty when absent) must
\* carry the index's key attributes and the table's; the store refuses any
\* other start key.  The
\* response carries LastEvaluatedKey when the query stopped at Limit.
IndexKey(r) == {"id", partition_key(r), "created_at"}

Query(r, T, partition, limit, start) ==
    LET all == NewestFirst(Partition(r, T, partition))
        page == SubSeq(all, 1, Min(limit, Len(all)))
    IN IF start # <<>> /\ DOMAIN start[1] # IndexKey(r)
       THEN [error |-> TRUE]
       ELSE [error |-> FALSE, Items |-> page,
             LastEvaluatedKey |->
                IF Len(all) >= limit /\ limit > 0
                THEN <<Restrict(page[Len(page)], IndexKey(r))>> ELSE <<>>]

\* str(x) of an id is the id; str(None) is the string "None".
StrNone == "None"

\* list(partition, limit, last_key): the entities of the page and next_key,
\* or an exception (NotImplementedError without a partition key, ValueError
\* when the query fails).
list(r, T, partition, limit, last_key, now, ok) ==
    IF partition_key(r) = None
    THEN [raised |-> "NotImplementedError"]
    ELSE LET start == IF Truthy(last_key) THEN <<[id |-> last_key]>> ELSE <<>>
             response == IF ok THEN Query(r, T, partition, limit, start)
                         ELSE [error |-> TRUE]
         IN IF response.error
               \/ \E j \in 1..Len(response.Items) : ~schema_ok(r, response.Items[j])
            THEN [raised |-> "ValueError"]
            ELSE [raised |-> None,
                  entities |-> [j \in 1..Len(response.Items) |->
                                  schema(r, from_decimals(response.Items[j]), now)],
                  next_key |-> IF response.LastEvaluatedKey = <<>>
                               THEN StrNone
                               ELSE response.LastEvaluatedKey[1].id]

\* ------------------------------------------------------ a paging caller
ListIds == {"i" \o ToString(j) : j \in 1..MaxItems}

\* The reports tables a caller can find: any of ListIds stored, each by an
\* author at a creation time.
ListInit ==
    /\ \E present \in SUBSET ListIds :
         \E author \in [present -> PartVals], at \in [present -> 0..MaxClock] :
            store = [t \in Tables |->
                       IF t = "reports"
                       THEN [i \in present |->
                               [id |-> i, title |-> "t1", author |-> author[i],
                                reference |-> "p1", created_at |-> at[i]]]
                       ELSE NoTable]
    /\ clock = MaxClock
    /\ focus = "Report"
    /\ last = Idle
    /\ SagaIdle
    /\ pager = NoPager
    /\ manager = NoManager
    /\ inflight = NoRequests

PageIds(entities) == [j \in 1..Len(entities) |-> entities[j].id]

\* The caller's loop: call list, keep the page, go on with the returned
\* cursor until it is None.  answered records whether the store was reachable
\* for the last call.
Paged(partition, limit, cursor, pages, ok, o) ==
    IF o.raised # None
    THEN [status |-> "raised", part |-> partition, limit |-> limit,
          cursor |-> cursor, pages |-> pages, raised |-> o.raised,
          answered |-> ok]
    ELSE [status |-> IF o.next_key = None THEN "done" ELSE "more",
          part |-> partition, limit |-> limit, cursor |-> o.next_key,
          pages |-> Append(pages, PageIds(o.entities)), raised |-> None,
          answered |-> ok]

PageFirst ==
    /\ pager.status = "new"
    /\ \E partition \in PartVals, limit \in 1..MaxLimit, ok \in BOOLEAN :
          pager' = Paged(partition, limit, None, <<>>, ok,
                         list(focus, store[get_table(focus)], partition, limit,
                              None, clock, ok))
    /\ UNCHANGED <<store, clock, focus, last, sagaVars, manager, inflight>>

PageNext ==
    /\ pager.status = "more"
    /\ \E ok \in BOOLEAN :
          pager' = Paged(pager.part, pager.limit, pager.cursor, pager.pages, ok,
                         list(focus, store[get_table(focus)], pager.part,
                              pager.limit, pager.cursor, clock, ok))
    /\ UNCHANGED <<store, clock, focus, last, sagaVars, manager, inflight>>

ListNext == PageFirst \/ PageNext

ListSpec == ListInit /\ [][ListNext]_vars

\* ------------------------------------------- claims on the CRUD operations
Partitioned(r) == partition_key(r) # None

LastTable == store[get_table(last.repo)]

\* The fields of the entity that the call wrote: set and modifiable.
Delta == (DOMAIN last.arg) \cap modifiable(last.repo)

\* The entity a stored item stands for: the same fields and values, a float
\* field read back as a float of the same value.
Denotes(ent, item) ==
    /\ DOMAIN ent = DOMAIN item
    /\ \A k \in DOMAIN item :
          IF k \in FloatFields
          THEN ent[k].t = "float" /\ ent[k].v = item[k].v
          ELSE ent[k] = item[k]

\* C1: for a partitioned schema, a read of a stored item with a partition
\* value other than the stored one (None included) returns None and none of
\* the item's data; with the stored partition value, and the store
\* answering, it returns the entity that was stored.
C1_ReadIsolation ==
    (last.op = "read" /\ Partitioned(last.repo) /\ last.id \in DOMAIN last.before)
    => LET item == last.before[last.id]
       IN IF item[partition_key(last.repo)] # last.part
          THEN last.res = FALSE /\ last.ent = <<>>
          ELSE last.ok => /\ last.res = TRUE
                          /\ Len(last.ent) = 1
                          /\ Denotes(last.ent[1], item)

\* A read with another caller's partition value of an item that is stored,
\* while the store answers.
C1_Witness ==
    /\ last.op = "read"
    /\ last.ok
    /\ last.id \in DOMAIN last.before
    /\ last.part \in PartVals
    /\ last.before[last.id][partition_key(last.repo)] # last.part
    /\ last.log = "denied"

\* C2: for a partitioned schema, update or delete with a partition value
\* other than the stored one returns false and leaves the table as it was;
\* with the stored partition value (the store answering, and the update
\* carrying a modifiable field) the write is applied and true is returned.
C2_OwnershipChecked ==
    (/\ last.op \in {"update", "delete"}
     /\ Partitioned(last.repo)
     /\ last.id \in DOMAIN last.before)
    => IF last.before[last.id][partition_key(last.repo)] # last.part
       THEN last.res = FALSE /\ LastTable = last.before
       ELSE (last.ok /\ (last.op = "update" => Delta # {}))
            => /\ last.res = TRUE
               /\ IF last.op = "delete"
                  THEN last.id \notin DOMAIN LastTable
                  ELSE \A k \in Delta : LastTable[last.id][k] = last.arg[k]

\* The half of C2 that the code keeps: a mismatching partition value is
\* refused and nothing is written.
C2_MismatchRefused ==
    (/\ last.op \in {"update", "delete"}
     /\ Partitioned(last.repo)
     /\ last.id \in DOMAIN last.before
     /\ last.before[last.id][partition_key(last.repo)] # last.part)
    => last.res = FALSE /\ LastTable = last.before

\* C3: an update whose entity sets no modifiable field returns false,
\* issues no write and leaves the table, updated_at included, as it was.
C3_UpdateNoOp ==
    (last.op = "update" /\ Delta = {})
    => /\ last.res = FALSE
       /\ last.log = "unchanged"
       /\ LastTable = last.before

\* An update without any modifiable field, by the owner of a stored item,
\* while the store answers: nothing but the no-op rule stops the write.
C3_Witness ==
    /\ last.op = "update"
    /\ Delta = {}
    /\ last.ok
    /\ ConditionHolds(last.repo, last.before, last.id, last.part)
    /\ last.now > last.before[last.id].created_at

\* C4: a successful update changes, in the item of the entity's id, the
\* fields that are set in the entity and modifiable, and updated_at, which
\* it sets to the current time; every other attribute of that item and
\* every other item of the table is as before.
C4_UpdateFrame ==
    (last.op = "update" /\ last.res = TRUE)
    => LET old == IF last.id \in DOMAIN last.before
                  THEN last.before[last.id] ELSE [id |-> last.id]
           new == LastTable[last.id]
       IN /\ DOMAIN LastTable = (DOMAIN last.before) \cup {last.id}
          /\ \A i \in (DOMAIN last.before) \ {last.id} :
                LastTable[i] = last.before[i]
          /\ DOMAIN new = (DOMAIN old) \cup Delta \cup {"updated_at"}
          /\ new.updated_at = last.now
          /\ \A k \in Delta : new[k] = last.arg[k]
          /\ \A k \in (DOMAIN old) \ (Delta \cup {"updated_at"}) :
                new[k] = old[k]

\* A successful update of one of two stored items by an entity whose
\* partition field and creation time differ from the stored ones, the
\* stored item holding a modifiable field the entity does not set.
C4_Witness ==
    /\ last.op = "update"
    /\ last.res = TRUE
    /\ DOMAIN last.before = Ids
    /\ LET old == last.before[last.id]
           pk == partition_key(last.repo)
       IN /\ last.arg[pk] # old[pk]
          /\ last.arg.created_at # old.created_at
          /\ (DOMAIN old) \cap (modifiable(last.repo) \ Delta) # {}

\* --------------------------------------------------- claims on the saga
ImagesOf(product) ==
    {i \in DOMAIN store.images : store.images[i].product = product}

\* The store answered every call the saga's compensations made.
CompensationsAnswered(p) == \A j \in 1..Len(comp[p]) : comp[p][j].ok

Steps(p) == [j \in 1..Len(comp[p]) |-> comp[p][j].step]

\* C5: when the image batch was created and the product create failed, the
\* saga compensates with deleteBatch(images, product.id) and aborts, and
\* then no Image of that product, no Product and no Report of the saga is
\* stored.
C5_RollbackAfterProductFailure ==
    \A p \in Procs :
       (pc[p] = "ABORTED" /\ err[p] = "product" /\ CompensationsAnswered(p))
       => /\ Steps(p) = <<"delete_batch">>
          /\ ImagesOf(built[p].product.id) = {}
          /\ built[p].product.id \notin DOMAIN store.products
          /\ built[p].report.id \notin DOMAIN store.reports

\* C6: when images and product were created and the report create failed,
\* afterwards the product and all its images are absent, and the entities
\* stored before the saga started are present and unchanged.
C6_RollbackDepth ==
    \A p \in Procs :
       (pc[p] = "ABORTED" /\ err[p] = "report" /\ CompensationsAnswered(p))
       => /\ built[p].product.id \notin DOMAIN store.products
          /\ ImagesOf(built[p].product.id) = {}
          /\ "u0i" \in DOMAIN store.images
          /\ store.images["u0i"].product = "u0p"
          /\ "u0p" \in DOMAIN store.products
          /\ "u0r" \in DOMAIN store.reports
          /\ store.reports["u0r"].reference = "u0p"

\* C7: in every reachable state every stored Image's product and every
\* stored Report's reference is the id of a stored Product.
C7_ReferentialIntegrity ==
    /\ \A i \in DOMAIN store.images :
          store.images[i].product \in DOMAIN store.products
    /\ \A i \in DOMAIN store.reports :
          store.reports[i].reference \in DOMAIN store.products

\* Referential integrity once every saga has ended and the store answered
\* each compensation call.
C7_AtRest ==
    (\A p \in Procs : /\ pc[p] \in {"NEW", "REPORT_CREATED", "ABORTED"}
                      /\ err[p] # "images"
                      /\ CompensationsAnswered(p))
    => C7_ReferentialIntegrity

\* C8: the Product built from a request lists exactly the ids of the Images
\* built from it, each of those Images names the Product's id, and the
\* Report's reference is the Product's id.
C8_ReferentialSymmetry ==
    \A p \in Procs :
       pc[p] # "NEW"
       => LET b == built[p]
          IN /\ b.product.images = [j \in Indexes(b.images) |-> b.images[j].id]
             /\ \A j \in Indexes(b.images) : b.images[j].product = b.product.id
             /\ b.report.reference = b.product.id

\* C9: when createBatch(images, partition = product.id) reports failure the
\* saga aborts without compensation and no Image of that product is stored.
C9_BatchFailureLeavesNothing ==
    \A p \in Procs :
       (pc[p] = "ABORTED" /\ err[p] = "images")
       => /\ comp[p] = <<>>
          /\ ImagesOf(built[p].product.id) = {}

SeqsUpTo(S, n) == UNION {[1..k -> S] : k \in 0..n}

\* ------------------------------------------------- BaseRepository.count
\* A count that queries without looking at the schema's partition key.

\* count(partition): the Count of the index query, or an exception
\* (NotImplementedError without a partition key, ValueError when the query
\* fails).
count_unguarded(r, T, partition, ok) ==
    IF ~ok
    THEN [raised |-> "ValueError"]
    ELSE [raised |-> None, n |-> Cardinality(Partition(r, T, partition))]

count(r, T, partition, ok) ==
    IF partition_key(r) = None
    THEN [raised |-> "NotImplementedError"]
    ELSE IF ~ok
    THEN [raised |-> "ValueError"]
    ELSE [raised |-> None, n |-> Cardinality(Partition(r, T, partition))]

\* ------------------------------------- callers of all repository methods
\* The partition arguments of these callers: a value, None, or the empty
\* string.
Overrides == Parts \cup {""}

\* Entities with no optional field set, and the lists of them a batch takes.
Plain(r, now) ==
    {e \in Entities(r, now) :
        /\ DOMAIN e \cap {"mask", "grid", "favorites", "brand"} = {}
        /\ "title" \in DOMAIN e => e.title = "t1"
        /\ "model" \in DOMAIN e => e.model = "m1"}

Batches(r, now) == SeqsUpTo(Plain(r, now), MaxImages)

\* The requests of a batch the store had processed when it stopped.
Prefixes(entities) == {1..k : k \in 0..Len(entities)}

RepoInit ==
    /\ store = [t \in Tables |-> NoTable]
    /\ clock = 0
    /\ focus \in Repos
    /\ last = Idle
    /\ SagaIdle
    /\ pager = NoPager
    /\ manager = NoManager
    /\ inflight = NoRequests

RepoCreate ==
    /\ last = Idle
    /\ \E e \in Entities(focus, clock), p \in Overrides, ok \in BOOLEAN :
          Apply("create", focus, e.id, p, e, ok,
                create(focus, store[get_table(focus)], e, p, ok))

RepoRead ==
    /\ last = Idle
    /\ \E id \in Ids, p \in Overrides, ok \in BOOLEAN :
          Apply("read", focus, id, p, <<>>, ok,
                read(focus, store[get_table(focus)], id, p, clock, ok))

RepoUpdate ==
    /\ last = Idle
    /\ \E e \in Entities(focus, clock), p \in Overrides, ok \in BOOLEAN :
          Apply("update", focus, e.id, p, e, ok,
                update(focus, store[get_table(focus)], e, p, clock, ok))

RepoDelete ==
    /\ last = Idle
    /\ \E id \in Ids, p \in Overrides, ok \in BOOLEAN :
          Apply("delete", focus, id, p, <<>>, ok,
                delete(focus, store[get_table(focus)], id, p, ok))

RepoCreateBatch ==
    /\ last = Idle
    /\ \E es \in Batches(focus, clock), p \in Overrides :
          \E done \in Prefixes(es) :
             Apply("create_batch", focus, None, p, es, done = Indexes(es),
                   create_batch(focus, store[get_table(focus)], es, p, done))

RepoDeleteBatch ==
    /\ last = Idle
    /\ \E es \in Batches(focus, clock), p \in Overrides :
          \E done \in Prefixes(es) :
             Apply("delete_batch", focus, None, p, es, done = Indexes(es),
                   delete_batch(focus, store[get_table(focus)], es, p, done))

\* Report.update_favorites(id, partition, favorites): a Report is built from
\* the three arguments (title and reference take their default "") and
\* handed to update, without a partition argument.
update_favorites(T, id, partition, favorites, now, ok) ==
    LET report == schema("Report", [id |-> id, author |-> partition,
                                    favorites |-> favorites], now)
    IN update("Report", T, report, None, now, ok)

\* The favorites lists a caller passes (the schema refuses an empty list).
FavoriteLists == {<<"p1">>, <<"p2", "p1">>}

RepoUpdateFavorites ==
    /\ last = Idle
    /\ focus = "Report"
    /\ \E id \in Ids, p \in PartVals, f \in FavoriteLists, ok \in BOOLEAN :
          Apply("update_favorites", focus, id, p, f, ok,
                update_favorites(store[get_table(focus)], id, p, f, clock, ok))

\* list and count return a value or raise: the caller holds either.
Query_call(op, partition, ok, o) ==
    /\ last' = [op |-> op, repo |-> focus, part |-> partition,
                before |-> store[get_table(focus)], ok |-> ok, out |-> o]
    /\ UNCHANGED <<store, clock, focus, sagaVars, pager, manager, inflight>>

RepoList ==
    /\ last = Idle
    /\ \E p \in PartVals, limit \in 1..MaxLimit, ok \in BOOLEAN :
          Query_call("list", p, ok,
                     list(focus, store[get_table(focus)], p, limit, None,
                          clock, ok))

RepoCount ==
    /\ last = Idle
    /\ \E p \in PartVals, ok \in BOOLEAN :
          Query_call("count", p, ok,
                     count(focus, store[get_table(focus)], p, ok))

RepoNext ==
    \/ RepoCreate \/ RepoRead \/ RepoUpdate \/ RepoDelete
    \/ RepoCreateBatch \/ RepoDeleteBatch \/ RepoList \/ RepoCount
    \/ RepoUpdateFavorites
    \/ Return

RepoSpec == RepoInit /\ [][RepoNext]_vars

\* ------------------------------------ the numeric codec on nested values
\* A Python value with its type: int, float and Decimal leaves are the
\* records above; the others follow.  A raised exception takes the place of
\* the value a call would have returned.
PyStr(x) == [t |-> "str", s |-> x]
PyBool(x) == [t |-> "bool", b |-> x]
PyNone == [t |-> "NoneType"]
PyList(xs) == [t |-> "list", items |-> xs]
PyDict(f) == [t |-> "dict", map |-> f]
Raised(e) == [t |-> "raise", e |-> e]

\* isinstance(obj, (int, float)): bool is a subclass of int.
IsIntOrFloat(obj) == obj.t \in {"int", "float", "bool"}

\* Decimal(str(obj)): str of a number is its digits, which Decimal parses;
\* str of a bool is "True" or "False", which Decimal refuses.
DecimalOfStr(obj) ==
    IF obj.t = "bool" THEN Raised("InvalidOperation") ELSE Decimal(obj.v)

\* A comprehension in which an element raised raises.
Collected(parts, whole) ==
    IF \E k \in DOMAIN parts : parts[k].t = "raise"
    THEN parts[CHOOSE k \in DOMAIN parts : parts[k].t = "raise"]
    ELSE whole

RECURSIVE to_decimals_obj(_)
to_decimals_obj(obj) ==
    CASE obj.t = "list" ->
           LET xs == [j \in DOMAIN obj.items |-> to_decimals_obj(obj.items[j])]
           IN Collected(xs, PyList(xs))
      [] obj.t = "dict" ->
           LET f == [k \in DOMAIN obj.map |-> to_decimals_obj(obj.map[k])]
           IN Collected(f, PyDict(f))
      [] IsIntOrFloat(obj) -> DecimalOfStr(obj)
      [] OTHER -> obj

\* int(obj) if obj % 1 == 0 (the model's numbers are whole).
RECURSIVE from_decimals_obj(_)
from_decimals_obj(obj) ==
    CASE obj.t = "list" ->
           PyList([j \in DOMAIN obj.items |-> from_decimals_obj(obj.items[j])])
      [] obj.t = "dict" ->
           PyDict([k \in DOMAIN obj.map |-> from_decimals_obj(obj.map[k])])
      [] obj.t = "Decimal" -> PyInt(obj.v)
      [] OTHER -> obj

\* The values handed to the codec: leaves, lists and mappings of leaves, and
\* those once more inside a list or a mapping.
Leaves == {PyInt(0), PyInt(1), PyStr("a"), PyBool(TRUE), PyBool(FALSE), PyNone}

Flat ==
    Leaves
      \cup {PyList(xs) : xs \in SeqsUpTo(Leaves, MaxLen)}
      \cup {PyDict(f) : f \in UNION {[K -> Leaves] : K \in SUBSET {"k1", "k2"}}}

Values ==
    Flat \cup {PyList(<<x>>) : x \in Flat} \cup {PyDict("k1" :> x) : x \in Flat}

CodecInit ==
    /\ store = [t \in Tables |-> NoTable]
    /\ clock = 0
    /\ focus = "Product"
    /\ last \in {[op |-> "value", arg |-> x] : x \in Values}
    /\ SagaIdle
    /\ pager = NoPager
    /\ manager = NoManager
    /\ inflight = NoRequests

Codec(op, res) ==
    /\ last.op = "value"
    /\ last' = [op |-> op, arg |-> last.arg, res |-> res]
    /\ UNCHANGED <<store, clock, focus, sagaVars, pager, manager, inflight>>

ToDecimals == Codec("to_decimals", to_decimals_obj(last.arg))

FromDecimals == Codec("from_decimals", from_decimals_obj(last.arg))

RoundTrip ==
    Codec("round_trip",
          LET stored == to_decimals_obj(last.arg)
          IN IF stored.t = "raise" THEN stored ELSE from_decimals_obj(stored))

CodecNext == ToDecimals \/ FromDecimals \/ RoundTrip

CodecSpec == CodecInit /\ [][CodecNext]_vars

\* ------------------------------- handlers/reports.py: create_report
\* (The handler writes through ReportRepository of shared/database.py.)
PyDatetime(x) == [t |-> "datetime", v |-> x]

\* prepare_for_dynamodb: a float leaf becomes Decimal(str(leaf)); every
\* other leaf, a datetime included, is returned as it is.
RECURSIVE prepare_for_dynamodb(_)
prepare_for_dynamodb(obj) ==
    CASE obj.t = "list" ->
           PyList([j \in DOMAIN obj.items |->
                     prepare_for_dynamodb(obj.items[j])])
      [] obj.t = "dict" ->
           PyDict([k \in DOMAIN obj.map |-> prepare_for_dynamodb(obj.map[k])])
      [] obj.t = "float" -> Decimal(obj.v)
      [] OTHER -> obj

\* The client's serializer of put_item: it takes str, int, Decimal, bool,
\* None, lists and mappings of them, and raises TypeError on any other type.
RECURSIVE Serializable(_)
Serializable(obj) ==
    CASE obj.t = "list" ->
           \A j \in DOMAIN obj.items : Serializable(obj.items[j])
      [] obj.t = "dict" ->
           \A k \in DOMAIN obj.map : Serializable(obj.map[k])
      [] OTHER -> obj.t \in {"str", "int", "Decimal", "bool", "NoneType"}

\* DBReport(...) as the handler builds it: created_at and updated_at take
\* their default, datetime.utcnow().
DBReport(report_id, title, user, reference, timestamp) ==
    [id |-> PyStr(report_id), title |-> PyStr(title), author |-> PyStr(user),
     date |-> PyStr(ToString(timestamp)), user_id |-> PyStr(user),
     reference |-> reference, favorites |-> PyList(<<>>),
     created_at |-> PyDatetime(timestamp),
     updated_at |-> PyDatetime(timestamp)]

\* ReportRepository.create_report: the item is the report's fields as they
\* are, floats converted; put_item; any exception gives False.
ReportRepository_create_report(T, report, ok) ==
    LET report_data == prepare_for_dynamodb(PyDict(report))
    IN IF ok /\ Serializable(report_data)
       THEN Outcome(Put(T, report.id.s, report_data.map), TRUE, <<>>, "created")
       ELSE Outcome(T, FALSE, <<>>, "failed")

\* The request bodies: a title and a reference product (its id may be the
\* empty string), or a body that CreateReportRequest refuses.
Bodies ==
    {[valid |-> TRUE, title |-> t,
      reference |-> PyDict([id |-> PyStr(i), brand |-> PyStr("b1")])] :
       t \in {"t1", "t2"}, i \in {"p1", ""}}
      \cup {[valid |-> FALSE]}

\* What invoke_lambda_async does when called: it returns, re-raises the
\* client's ClientError, or raises another exception.
Triggers == {"sent", "ClientError", "Exception"}

\* A handler that notifies the embedding service before it writes the report.
create_report_eager(T, user, body, report_id, timestamp, ok, trigger) ==
    IF ~body.valid
    THEN [tbl |-> T, status |-> 400, invoked |-> 0]
    ELSE LET db_report == DBReport(report_id, body.title, user,
                                   body.reference, timestamp)
             w == ReportRepository_create_report(T, db_report, ok)
             n == IF body.reference.map.id.s # "" THEN 1 ELSE 0
         IN IF ~w.res
            THEN [tbl |-> w.tbl, status |-> 500, invoked |-> n]
            ELSE [tbl |-> w.tbl, status |-> 201, invoked |-> n]

\* create_report(event, context) for an authenticated user: the response's
\* status, the table afterwards and the number of notifications invoked.
create_report(T, user, body, report_id, timestamp, ok, trigger) ==
    IF ~body.valid
    THEN [tbl |-> T, status |-> 400, invoked |-> 0]
    ELSE LET db_report == DBReport(report_id, body.title, user,
                                   body.reference, timestamp)
             w == ReportRepository_create_report(T, db_report, ok)
         IN IF ~w.res
            THEN [tbl |-> w.tbl, status |-> 500, invoked |-> 0]
            ELSE [tbl |-> w.tbl, status |-> 201,
                  invoked |-> IF body.reference.map.id.s # "" THEN 1 ELSE 0]

HandlerInit ==
    /\ store = [t \in Tables |-> NoTable]
    /\ clock = 0
    /\ focus = "Report"
    /\ last = Idle
    /\ SagaIdle
    /\ pager = NoPager
    /\ manager = NoManager
    /\ inflight = NoRequests

CreateReport ==
    /\ last = Idle
    /\ nextId < MaxItems
    /\ \E user \in PartVals, body \in Bodies, ok \in BOOLEAN,
          trigger \in Triggers :
          LET report_id == FreshIds(nextId, 1)[1]
              o == create_report(store.reports, user, body, report_id, clock,
                                 ok, trigger)
          IN /\ store' = [store EXCEPT !.reports = o.tbl]
             /\ last' = [op |-> "create_report", user |-> user, body |-> body,
                         id |-> report_id, now |-> clock, ok |-> ok,
                         trigger |-> trigger, before |-> store.reports,
                         status |-> o.status, invoked |-> o.invoked]
    /\ nextId' = nextId + 1
    /\ UNCHANGED <<clock, focus, pc, built, err, comp, pager, manager, inflight>>

HandlerNext == Tick \/ CreateReport \/ Return

HandlerSpec == HandlerInit /\ [][HandlerNext]_vars

\* --------------------------------- handlers on a stored report (reportId)
\* The reports these handlers act on are items of the reports table with
\* the fields of DBReport, the timestamps as the store holds them (strings).
ProductIds == {"p1", "p2"}

\* The report ids requests name: the stored report, absent once deleted.
ReportIds == {"i1"}

PyStrs(xs) == PyList([j \in DOMAIN xs |-> PyStr(xs[j])])

StoredReport(report_id, user, favorites) ==
    [id |-> PyStr(report_id), title |-> PyStr("t1"), author |-> PyStr(user),
     date |-> PyStr("0"), user_id |-> PyStr(user),
     reference |-> PyDict([id |-> PyStr("p1"), brand |-> PyStr("b1")]),
     favorites |-> PyStrs(favorites),
     created_at |-> PyStr("0"), updated_at |-> PyStr("0")]

\* pydantic reads the stored timestamp string into DBReport's datetime field.
datetime_of(x) == PyDatetime(CHOOSE n \in 0..MaxClock : ToString(n) = x.s)

success_response(data) == [status |-> 200, error |-> "", data |-> <<data>>]

error_response(error, status_code) ==
    [status |-> status_code, error |-> error, data |-> <<>>]

\* get_report without the comparison of the item's user_id.
ReportRepository_get_report_unchecked(T, report_id, user_id, ok) ==
    IF ~ok \/ report_id \notin DOMAIN T
    THEN <<>>
    ELSE <<[T[report_id] EXCEPT
              !.created_at = datetime_of(T[report_id].created_at),
              !.updated_at = datetime_of(T[report_id].updated_at)]>>

\* ReportRepository.get_report: the DBReport of the item, or None (here the
\* empty sequence) when there is no item, when its user_id is not the
\* caller's, or when the store call raised.
ReportRepository_get_report(T, report_id, user_id, ok) ==
    IF ~ok \/ report_id \notin DOMAIN T
    THEN <<>>
    ELSE IF T[report_id].user_id # PyStr(user_id)
    THEN <<>>
    ELSE <<[T[report_id] EXCEPT
              !.created_at = datetime_of(T[report_id].created_at),
              !.updated_at = datetime_of(T[report_id].updated_at)]>>

\* ConditionExpression Attr("user_id").eq(user_id) on the item of report_id.
OwnerConditionHolds(T, report_id, user_id) ==
    report_id \in DOMAIN T /\ T[report_id].user_id = user_id

\* ReportRepository.update_report: a conditional update_item of title,
\* reference, favorites and updated_at, the values handed over as they are.
ReportRepository_update_report(T, report, ok) ==
    LET values == [title |-> report.title,
                   reference |-> prepare_for_dynamodb(report.reference),
                   favorites |-> prepare_for_dynamodb(report.favorites),
                   updated_at |-> report.updated_at]
    IN IF /\ ok
          /\ Serializable(PyDict(values))
          /\ OwnerConditionHolds(T, report.id.s, report.user_id)
       THEN Outcome(Put(T, report.id.s,
                        [T[report.id.s] EXCEPT
                           !.title = values.title,
                           !.reference = values.reference,
                           !.favorites = values.favorites,
                           !.updated_at = values.updated_at]),
                    TRUE, <<>>, "updated")
       ELSE Outcome(T, FALSE, <<>>, "failed")

\* ReportRepository.update_report_favorites: a conditional update_item of
\* favorites and updated_at.
ReportRepository_update_report_favorites(T, report_id, user_id, favorites, now, ok) ==
    IF ok /\ OwnerConditionHolds(T, report_id, PyStr(user_id))
    THEN Outcome(Put(T, report_id,
                     [T[report_id] EXCEPT
                        !.favorites = prepare_for_dynamodb(favorites),
                        !.updated_at = PyStr(ToString(now))]),
                 TRUE, <<>>, "updated")
    ELSE Outcome(T, FALSE, <<>>, "failed")

\* ReportRepository.delete_report: a conditional delete_item.
ReportRepository_delete_report(T, report_id, user_id, ok) ==
    IF ok /\ OwnerConditionHolds(T, report_id, PyStr(user_id))
    THEN Outcome(Remove(T, report_id), TRUE, <<>>, "deleted")
    ELSE Outcome(T, FALSE, <<>>, "failed")

\* Report(...).model_dump() of a DBReport: the fields of the API's Report.
ReportDump(db_report) ==
    PyDict(Restrict(db_report, {"id", "title", "author", "date", "reference",
                                "favorites"}))

\* list.remove(x): the list without the first occurrence of x.
RECURSIVE list_remove(_, _)
list_remove(xs, x) ==
    IF xs = <<>> THEN <<>>
    ELSE IF Head(xs) = x THEN Tail(xs)
    ELSE <<Head(xs)>> \o list_remove(Tail(xs), x)

InList(x, xs) == \E j \in DOMAIN xs : xs[j] = x

\* get_report(event, context) after its store read returned db_report; fits
\* tells whether the stored reference validates as the API's Report.reference.
get_report(db_report, fits) ==
    IF db_report = <<>>
    THEN error_response("Report not found", 404)
    ELSE IF ~fits
    THEN error_response("validation error", 400)
    ELSE success_response(ReportDump(db_report[1]))

\* update_report(event, context) from the save on: db_report is what its
\* read returned, with the body's title and updated_at = datetime.utcnow().
update_report(T, db_report, title, now, ok) ==
    LET report == [db_report EXCEPT !.title = PyStr(title),
                                    !.updated_at = PyDatetime(now)]
        w == ReportRepository_update_report(T, report, ok)
    IN IF ~w.res
       THEN [tbl |-> w.tbl, resp |-> error_response("Failed to update report",
                                                    500)]
       ELSE [tbl |-> w.tbl, resp |-> success_response(ReportDump(report))]

\* delete_report(event, context).
delete_report(T, user_id, report_id, ok) ==
    LET w == ReportRepository_delete_report(T, report_id, user_id, ok)
    IN IF ~w.res
       THEN [tbl |-> w.tbl, resp |-> error_response("Report not found", 404)]
       ELSE [tbl |-> w.tbl, resp |-> success_response(PyDict([success |->
                                                         PyBool(TRUE)]))]

\* search_products(event, context) on a valid search request.
search_products(db_report) ==
    IF db_report = <<>>
    THEN error_response("Report not found", 404)
    ELSE success_response(PyDict([products |-> PyList(<<>>)]))

\* get_product(event, context).
get_product(db_report) ==
    IF db_report = <<>>
    THEN error_response("Report not found", 404)
    ELSE error_response("Product not found", 404)

\* export_favorites(event, context).
export_favorites(db_report) ==
    IF db_report = <<>>
    THEN error_response("Report not found", 404)
    ELSE IF db_report[1].favorites.items = <<>>
    THEN error_response("No favorites to export", 400)
    ELSE error_response("Export functionality not implemented yet", 501)

\* update_favorite_status(event, context) from the list update on: db_report
\* is what its read returned.
update_favorite_status(T, user_id, report_id, product_id, is_favorite, db_report, now, ok) ==
    LET current == db_report.favorites.items
        current_favorites ==
            IF is_favorite /\ ~InList(PyStr(product_id), current)
            THEN Append(current, PyStr(product_id))
            ELSE IF ~is_favorite /\ InList(PyStr(product_id), current)
            THEN list_remove(current, PyStr(product_id))
            ELSE current
        w == ReportRepository_update_report_favorites(
                 T, report_id, user_id, PyList(current_favorites), now, ok)
    IN IF ~w.res
       THEN [tbl |-> w.tbl,
             resp |-> error_response("Failed to update favorites", 500)]
       ELSE [tbl |-> w.tbl,
             resp |-> success_response(PyDict([success |-> PyBool(TRUE)]))]

\* sync_favorites(event, context) with a body whose favorites is a list.
sync_favorites(T, user_id, report_id, favorites, now, ok) ==
    LET w == ReportRepository_update_report_favorites(
                 T, report_id, user_id, PyStrs(favorites), now, ok)
    IN IF ~w.res
       THEN [tbl |-> w.tbl, resp |-> error_response("Report not found", 404)]
       ELSE [tbl |-> w.tbl,
             resp |-> success_response(PyDict([success |-> PyBool(TRUE)]))]

\* The favorites arrays a sync request carries.
SyncBodies == {<<>>, <<"p1">>, <<"p1", "p1">>}

\* The reports table holds one report of either user, its favorites a
\* sequence without duplicates.
ReportsInit ==
    /\ store \in {[t \in Tables |->
                     IF t = "reports"
                     THEN "i1" :> StoredReport("i1", u, f)
                     ELSE NoTable] :
                    u \in PartVals, f \in {<<>>, <<"p1">>}}
    /\ clock = 0
    /\ focus = "Report"
    /\ last = Idle
    /\ SagaIdle
    /\ pager = NoPager
    /\ manager = NoManager
    /\ inflight = NoRequests

InFlight(p) == inflight.calls[p].at \in {"update_report", "update_favorites"}

\* Lambda p receives a request: it runs together with every request that is
\* still being handled.
Received(p, call) ==
    /\ inflight.calls[p].at \in {"idle", "done"}
    /\ inflight' = [calls |-> [inflight.calls EXCEPT ![p] = call],
                    overlap |-> \E q \in Procs \ {p} : InFlight(q)]

\* The handler in p returns its response.
Responded(p, resp) ==
    [at |-> "done", op |-> inflight.calls[p].op,
     user |-> inflight.calls[p].user, id |-> inflight.calls[p].id,
     arg |-> inflight.calls[p].arg, resp |-> resp]

\* What a request carries besides the user and the report id: the body's
\* title, the productId and the body's isFavorite, the body's favorites.
Arg(title, product_id, is_favorite, favorites) ==
    [title |-> title, product |-> product_id, isFavorite |-> is_favorite,
     favorites |-> favorites]

NoArg == Arg("", "", FALSE, <<>>)

Answer(op, user, report_id, arg, resp) ==
    [at |-> "done", op |-> op, user |-> user, id |-> report_id, arg |-> arg,
     resp |-> resp]

\* The handlers that make one store call.
GetReport(p) ==
    /\ \E user \in PartVals, report_id \in ReportIds, ok, fits \in BOOLEAN :
          Received(p, Answer("get_report", user, report_id, NoArg,
             get_report(ReportRepository_get_report(store.reports, report_id,
                                                    user, ok), fits)))
    /\ UNCHANGED <<store, clock, focus, last, sagaVars, pager, manager>>

ReadOnly(p) ==
    /\ \E user \in PartVals, report_id \in ReportIds, ok \in BOOLEAN :
          LET db_report == ReportRepository_get_report(store.reports,
                                                       report_id, user, ok)
          IN \/ Received(p, Answer("search_products", user, report_id, NoArg,
                                   search_products(db_report)))
             \/ Received(p, Answer("get_product", user, report_id, NoArg,
                                   get_product(db_report)))
             \/ Received(p, Answer("export_favorites", user, report_id, NoArg,
                                   export_favorites(db_report)))
    /\ UNCHANGED <<store, clock, focus, last, sagaVars, pager, manager>>

DeleteReport(p) ==
    /\ \E user \in PartVals, report_id \in ReportIds, ok \in BOOLEAN :
          LET o == delete_report(store.reports, user, report_id, ok)
          IN /\ Received(p, Answer("delete_report", user, report_id, NoArg,
                                   o.resp))
             /\ store' = [store EXCEPT !.reports = o.tbl]
    /\ UNCHANGED <<clock, focus, last, sagaVars, pager, manager>>

SyncFavorites(p) ==
    /\ \E user \in PartVals, report_id \in ReportIds, favorites \in SyncBodies,
          ok \in BOOLEAN :
          LET o == sync_favorites(store.reports, user, report_id, favorites,
                                  clock, ok)
          IN /\ Received(p, Answer("sync_favorites", user, report_id,
                                   Arg("", "", FALSE, favorites), o.resp))
             /\ store' = [store EXCEPT !.reports = o.tbl]
    /\ UNCHANGED <<clock, focus, last, sagaVars, pager, manager>>

\* The handlers that read the report and then write it: the read.
ReadForWrite(p, at, op, arg) ==
    \E user \in PartVals, report_id \in ReportIds, ok \in BOOLEAN :
       LET db_report == ReportRepository_get_report(store.reports, report_id,
                                                    user, ok)
       IN IF db_report = <<>>
          THEN Received(p, Answer(op, user, report_id, arg,
                                  error_response("Report not found", 404)))
          ELSE Received(p, [at |-> at, op |-> op, user |-> user,
                            id |-> report_id, arg |-> arg,
                            db_report |-> db_report[1]])

UpdateReportRead(p) ==
    /\ \E title \in {"t2"} :
          ReadForWrite(p, "update_report", "update_report",
                       Arg(title, "", FALSE, <<>>))
    /\ UNCHANGED <<store, clock, focus, last, sagaVars, pager, manager>>

UpdateReportWrite(p) ==
    /\ inflight.calls[p].at = "update_report"
    /\ \E ok \in BOOLEAN :
          LET c == inflight.calls[p]
              o == update_report(store.reports, c.db_report, c.arg.title,
                                 clock, ok)
          IN /\ inflight' = [inflight EXCEPT !.calls[p] = Responded(p, o.resp)]
             /\ store' = [store EXCEPT !.reports = o.tbl]
    /\ UNCHANGED <<clock, focus, last, sagaVars, pager, manager>>

UpdateFavoriteRead(p) ==
    /\ \E product_id \in ProductIds, is_favorite \in BOOLEAN :
          ReadForWrite(p, "update_favorites", "update_favorite_status",
                       Arg("", product_id, is_favorite, <<>>))
    /\ UNCHANGED <<store, clock, focus, last, sagaVars, pager, manager>>

UpdateFavoriteWrite(p) ==
    /\ inflight.calls[p].at = "update_favorites"
    /\ \E ok \in BOOLEAN :
          LET c == inflight.calls[p]
              o == update_favorite_status(store.reports, c.user, c.id,
                                          c.arg.product, c.arg.isFavorite,
                                          c.db_report, clock, ok)
          IN /\ inflight' = [inflight EXCEPT !.calls[p] = Responded(p, o.resp)]
             /\ store' = [store EXCEPT !.reports = o.tbl]
    /\ UNCHANGED <<clock, focus, last, sagaVars, pager, manager>>

ReportsNext ==
    \E p \in Procs :
       \/ GetReport(p)
       \/ ReadOnly(p)
       \/ DeleteReport(p)
       \/ SyncFavorites(p)
       \/ UpdateReportRead(p)
       \/ UpdateReportWrite(p)
       \/ UpdateFavoriteRead(p)
       \/ UpdateFavoriteWrite(p)

ReportsSpec == ReportsInit /\ [][ReportsNext]_vars

\* ------------------------------------- DatabaseManager: table accessors
\* The table name each accessor reads from the environment (its default).
TableName(a) == "k9-" \o a \o "-dev"

\* get_dynamodb_resource().Table(table_name): a new handle object on the
\* named table; n tells the objects made for one accessor apart.
Handle(a, n) == [t |-> "Table", table |-> TableName(a), obj |-> n]

Calls(p, c) == [manager EXCEPT !.calls[p] = c]

\* A thread calls get_<a>_table().
AccessorCall(p) ==
    /\ manager.calls[p].at \in {"idle", "done", "raised"}
    /\ \E a \in Accessors :
          manager' = Calls(p, [at |-> "check", acc |-> a])
    /\ UNCHANGED <<store, clock, focus, last, sagaVars, pager, inflight>>

\* if cls._<a>_table is None: reading an attribute the class does not have
\* raises AttributeError.
AccessorCheck(p) ==
    /\ manager.calls[p].at = "check"
    /\ LET a == manager.calls[p].acc
           slot == manager.tables[a]
       IN manager' =
            Calls(p, IF slot = Undeclared
                     THEN [at |-> "raised", acc |-> a,
                           raised |-> "AttributeError"]
                     ELSE IF slot = NoHandle
                     THEN [at |-> "create", acc |-> a]
                     ELSE [at |-> "return", acc |-> a])
    /\ UNCHANGED <<store, clock, focus, last, sagaVars, pager, inflight>>

\* cls._<a>_table = cls.get_dynamodb_resource().Table(table_name)
AccessorCreate(p) ==
    /\ manager.calls[p].at = "create"
    /\ LET a == manager.calls[p].acc
           n == manager.made[a] + 1
       IN manager' =
            [manager EXCEPT !.dynamodb = TRUE,
                            !.made[a] = n,
                            !.tables[a] = Handle(a, n),
                            !.calls[p] = [at |-> "return", acc |-> a]]
    /\ UNCHANGED <<store, clock, focus, last, sagaVars, pager, inflight>>

\* return cls._<a>_table
AccessorReturn(p) ==
    /\ manager.calls[p].at = "return"
    /\ LET a == manager.calls[p].acc
       IN manager' = Calls(p, [at |-> "done", acc |-> a,
                               handle |-> manager.tables[a]])
    /\ UNCHANGED <<store, clock, focus, last, sagaVars, pager, inflight>>

ManagerInit ==
    /\ store = [t \in Tables |-> NoTable]
    /\ clock = 0
    /\ focus \in Repos
    /\ last = Idle
    /\ SagaIdle
    /\ pager = NoPager
    /\ manager = NoManager
    /\ inflight = NoRequests

ManagerNext ==
    \E p \in Procs :
       \/ AccessorCall(p)
       \/ AccessorCheck(p)
       \/ AccessorCreate(p)
       \/ AccessorReturn(p)

ManagerSpec == ManagerInit /\ [][ManagerNext]_vars

\* -------------------------------------------------- claims on the codec
\* C14: for every value x of nested lists and mappings over int, str, bool
\* and None leaves, from_decimals(to_decimals(x)) = x, and from_decimals of
\* a native value is that value.
C14_CodecRoundTrip ==
    last.op \in {"round_trip", "from_decimals"} => last.res = last.arg

\* The str, bool and None leaves of x are at the same places in y.
RECURSIVE PassedThrough(_, _)
PassedThrough(x, y) ==
    CASE x.t = "list" ->
           /\ y.t = "list"
           /\ DOMAIN y.items = DOMAIN x.items
           /\ \A j \in DOMAIN x.items : PassedThrough(x.items[j], y.items[j])
      [] x.t = "dict" ->
           /\ y.t = "dict"
           /\ DOMAIN y.map = DOMAIN x.map
           /\ \A k \in DOMAIN x.map : PassedThrough(x.map[k], y.map[k])
      [] x.t \in {"str", "bool", "NoneType"} -> y = x
      [] OTHER -> TRUE

\* C15: to_decimals and from_decimals each return every str, bool and None
\* leaf unchanged, without raising, at any nesting depth.
C15_NonNumericPassThrough ==
    last.op \in {"to_decimals", "from_decimals"}
    => PassedThrough(last.arg, last.res)

\* The compensations the specification requires after the failure of a step.
Compensations(error) ==
    CASE error = "images" -> <<>>
      [] error = "product" -> <<"delete_batch">>
      [] error = "report" -> <<"delete", "delete_batch">>
      [] OTHER -> <<>>

SagaEnded(p) == pc[p] \in {"REPORT_CREATED", "ABORTED"}

SagaOutcome ==
    \A p \in Procs :
       /\ pc[p] = "REPORT_CREATED" => (err[p] = None /\ comp[p] = <<>>)
       /\ pc[p] = "ABORTED"
          => (err[p] \in {"images", "product", "report"}
              /\ Steps(p) = Compensations(err[p]))

FirstFailureKept == \A p \in Procs : err[p] # None => err'[p] = err[p]

\* C21: every started report creation ends, in full success or aborted with
\* the compensations of the steps it had completed attempted; the error it
\* surfaces is the first failure, which no later compensation replaces.
C21_SagaTerminates ==
    /\ []SagaOutcome
    /\ [][FirstFailureKept]_vars
    /\ \A p \in Procs : (pc[p] = "START") ~> SagaEnded(p)

\* A creation aborted after its report failed, both compensations attempted
\* and one of them failed, the surfaced error still the report's.
C21_Witness ==
    \E p \in Procs :
       /\ pc[p] = "ABORTED"
       /\ err[p] = "report"
       /\ Steps(p) = <<"delete", "delete_batch">>
       /\ \E j \in 1..Len(comp[p]) : ~comp[p][j].res

\* -------------------------------------------------- claims on list()
RECURSIVE Flatten(_)
Flatten(pages) ==
    IF pages = <<>> THEN <<>> ELSE Head(pages) \o Flatten(Tail(pages))

Ceil(n, k) == (n + k - 1) \div k

PartitionIds(partition) ==
    {i \in DOMAIN store.reports : store.reports[i].author = partition}

\* C10: with N >= 1 items in one partition and no concurrent write, paging
\* with limit k from no cursor, each returned cursor fed to the next call,
\* yields ceil(N/k) pages whose ids together are the partition's ids, none
\* twice and none left out.
C10_PaginationExhaustion ==
    (/\ pager.status \in {"done", "raised"}
     /\ pager.answered
     /\ PartitionIds(pager.part) # {})
    => LET ids == Flatten(pager.pages)
       IN /\ Len(pager.pages) = Ceil(Cardinality(PartitionIds(pager.part)),
                                     pager.limit)
          /\ {ids[j] : j \in 1..Len(ids)} = PartitionIds(pager.part)
          /\ Len(ids) = Cardinality(PartitionIds(pager.part))

\* The page the pager's last normal return gave.
LastPage == pager.pages[Len(pager.pages)]

Returned == pager.status \in {"more", "done"}

\* C11: list returns None as the next cursor exactly when the store reports
\* no further items after the returned page (no LastEvaluatedKey), and a
\* cursor that is not None otherwise.
C11_NullCursorOnLastPage ==
    Returned
    => LET q == Query(focus, store[get_table(focus)], pager.part,
                      pager.limit, <<>>)
       IN (pager.cursor = None) <=> (q.LastEvaluatedKey = <<>>)

\* C12: a list that returns normally returns at most limit entities, each a
\* stored item whose partition key field is the requested partition.
C12_ListScopedAndBounded ==
    Returned
    => /\ Len(LastPage) <= pager.limit
       /\ \A j \in 1..Len(LastPage) :
             /\ LastPage[j] \in DOMAIN store.reports
             /\ store.reports[LastPage[j]].author = pager.part

\* A full page of two was returned while the table also holds an item of
\* another partition.
C12_Witness ==
    /\ Returned
    /\ Len(LastPage) = 2
    /\ pager.limit = 2
    /\ \E i \in DOMAIN store.reports : store.reports[i].author # pager.part

\* C13: the entities list returns, within a page and over consecutive pages,
\* are in non-increasing created_at order.
C13_ListOrder ==
    Returned
    => LET ids == Flatten(pager.pages)
       IN \A i, j \in 1..Len(ids) :
             i < j => store.reports[ids[i]].created_at
                        >= store.reports[ids[j]].created_at

\* A page of two entities created at different times was returned.
C13_Witness ==
    /\ Returned
    /\ Len(LastPage) = 2
    /\ store.reports[LastPage[1]].created_at
         # store.reports[LastPage[2]].created_at

\* ------------------------------- claims on the repository's boundary
Queried == last # Idle /\ last.op \in {"list", "count"}

Called == last # Idle /\ last.op \notin {"list", "count"}

Batched == last # Idle /\ last.op \in {"create_batch", "delete_batch"}

\* create, read, update, delete and the batches answer a failing store call
\* with their failure value.
C16_SentinelsOfWrites == (Called /\ ~last.ok) => (~last.res /\ last.ent = <<>>)

\* C16: when the store call fails every public repository method returns
\* its failure value (false, None, an empty result) and raises nothing.
C16_StoreFailuresBecomeSentinels ==
    /\ C16_SentinelsOfWrites
    /\ (Queried /\ ~last.ok /\ partition_key(last.repo) # None)
       => last.out.raised = None

\* C17: list and count on a repository without a partition key raise
\* NotImplementedError whether or not the store would answer, and the table
\* is as before.
C17_UsageFault ==
    (Queried /\ partition_key(last.repo) = None)
    => /\ last.out.raised = "NotImplementedError"
       /\ store[get_table(last.repo)] = last.before

\* count was called on the Product repository while the store was down and
\* the table held an item.
C17_Witness ==
    /\ Queried
    /\ last.op = "count"
    /\ last.repo = "Product"
    /\ ~last.ok
    /\ last.before # NoTable

LastItem == store[get_table(last.repo)][last.id]

OtherFields(r, e) == Restrict(e, Fields(r) \ {partition_key(r)})

\* What C18 says of a successful create with override last.part.
OverrideStored ==
    IF partition_key(last.repo) # None
    THEN /\ LastItem[partition_key(last.repo)] = last.part
         /\ LET o == read(last.repo, store[get_table(last.repo)], last.id,
                          last.part, last.now, TRUE)
            IN /\ o.res
               /\ OtherFields(last.repo, o.ent[1])
                    = OtherFields(last.repo, last.arg)
    ELSE LastItem = to_decimals(last.arg)

\* C18: a successful create(entity, P) on a partitioned schema stores the
\* entity with its partition key field equal to P, and read(id, P) then
\* returns the entity, equal in every other field; on a schema without a
\* partition key the override is ignored.
C18_CreateWithOverride ==
    (Called /\ last.op = "create" /\ last.res /\ last.part # None)
    => OverrideStored

\* The same for every override that is not the empty string.
C18_NonEmptyOverride ==
    (Called /\ last.op = "create" /\ last.res /\ Truthy(last.part))
    => OverrideStored

BatchIds == {last.arg[j].id : j \in Indexes(last.arg)}

\* The truth of a batch's result apart from the partition value written.
C19_BatchPresence ==
    /\ (Batched /\ last.op = "create_batch" /\ last.res)
       => BatchIds \subseteq DOMAIN store[get_table(last.repo)]
    /\ (Batched /\ last.op = "delete_batch" /\ last.res)
       => BatchIds \cap DOMAIN store[get_table(last.repo)] = {}
    /\ (Batched /\ ~last.ok) => ~last.res

\* C19: create_batch returns true only if every entity of the list is stored
\* afterwards with the partition value applied, delete_batch returns true
\* only if every listed entity is absent afterwards, and a batch that failed
\* part-way returns false.
C19_BatchResultTruthful ==
    /\ C19_BatchPresence
    /\ (/\ Batched
        /\ last.op = "create_batch"
        /\ last.res
        /\ partition_key(last.repo) # None
        /\ last.part # None)
       => \A i \in BatchIds :
             store[get_table(last.repo)][i][partition_key(last.repo)]
               = last.part

\* ------------------------------------- claims on the create_report handler
\* C20: a create_report run on a valid request naming a reference product,
\* with the store answering and the embedding notification failing, returns
\* 201 and leaves the report it wrote stored.
C20_TriggerNonCritical ==
    (/\ last # Idle
     /\ last.op = "create_report"
     /\ last.body.valid
     /\ last.body.reference.map.id.s # ""
     /\ last.ok
     /\ last.trigger # "sent")
    => /\ last.status = 201
       /\ last.id \in DOMAIN store.reports
       /\ store.reports[last.id].title = PyStr(last.body.title)

\* No run of create_report returns 201.
C20_NeverCreated ==
    (last # Idle /\ last.op = "create_report") => last.status # 201

\* C30: a create_report run invokes the embedding notification at most once
\* and only when its report write succeeded, the report then being stored; a
\* run on a valid request whose write failed answers with an error status
\* and invokes no notification.
C30_TriggerAfterPersistence ==
    (last # Idle /\ last.op = "create_report")
    => /\ last.invoked \in {0, 1}
       /\ last.invoked = 1
          => (last.status = 201 /\ last.id \in DOMAIN store.reports)
       /\ (last.body.valid /\ last.id \notin DOMAIN store.reports)
          => (last.status >= 400 /\ last.invoked = 0)

\* A run on a valid request naming a reference product whose write failed.
C30_Witness ==
    /\ last # Idle
    /\ last.op = "create_report"
    /\ last.body.valid
    /\ last.body.reference.map.id.s # ""
    /\ last.id \notin DOMAIN store.reports
    /\ last.status = 500
    /\ last.invoked = 0

\* ------------------------------------- claims on the reportId handlers
NoDuplicates(xs) == \A i, j \in DOMAIN xs : i # j => xs[i] # xs[j]

\* C23: the favorites of every stored report hold no product id twice,
\* whatever update_favorite_status and sync_favorites requests were handled.
C23_FavoritesNoDuplicates ==
    \A i \in DOMAIN store.reports :
       NoDuplicates(store.reports[i].favorites.items)

\* Lambda p answered 200 to an update_favorite_status request that adds.
Added(p) ==
    /\ inflight.calls[p].at = "done"
    /\ inflight.calls[p].op = "update_favorite_status"
    /\ inflight.calls[p].arg.isFavorite
    /\ inflight.calls[p].resp.status = 200

\* C28: when two update_favorite_status requests of one user on one report
\* that ran at the same time added two distinct product ids and both
\* answered 200, the stored favorites hold both ids.
C28_NoLostFavorite ==
    \A p, q \in Procs :
       (/\ p # q
        /\ inflight.overlap
        /\ Added(p)
        /\ Added(q)
        /\ inflight.calls[p].user = inflight.calls[q].user
        /\ inflight.calls[p].id = inflight.calls[q].id
        /\ inflight.calls[p].arg.product # inflight.calls[q].arg.product)
       => /\ inflight.calls[p].id \in DOMAIN store.reports
          /\ \A c \in {inflight.calls[p], inflight.calls[q]} :
                InList(PyStr(c.arg.product),
                       store.reports[c.id].favorites.items)

\* The request names a stored report whose user_id is not the caller's.
NotOwner(c) ==
    /\ c.id \in DOMAIN store.reports
    /\ store.reports[c.id].user_id # PyStr(c.user)

\* C29: every step a reportId handler takes for a caller who is not the
\* stored report's owner ends the request with a status of 400 or more and
\* no data, and leaves the reports table as it was, whatever the other
\* Lambda is doing.
C29_HandlerOwnership ==
    [][\A p \in Procs :
          (/\ inflight'.calls[p] # inflight.calls[p]
           /\ NotOwner(inflight'.calls[p]))
          => /\ inflight'.calls[p].at = "done"
             /\ inflight'.calls[p].resp.status >= 400
             /\ inflight'.calls[p].resp.data = <<>>
             /\ store' = store]_vars

\* A request that would write, answered 404 to a caller who is not the
\* owner, while the owner's own update of the same report is in progress.
C29_Witness ==
    \E p, q \in Procs :
       /\ inflight.calls[p].at = "done"
       /\ inflight.calls[p].op \in {"sync_favorites", "delete_report",
                                    "update_favorite_status", "update_report"}
       /\ NotOwner(inflight.calls[p])
       /\ inflight.calls[p].resp.status = 404
       /\ InFlight(q)
       /\ inflight.calls[q].id = inflight.calls[p].id
       /\ ~NotOwner(inflight.calls[q])

\* ------------------------------------- claims on overwriting and ownership
TableNow == store[get_table(last.repo)]

\* C24: Report.update_favorites(id, partition, favorites) on a stored report
\* whose author is partition returns true, stores the given favorites and
\* leaves title, reference, author and created_at as they were; when the
\* author differs it returns false and nothing changes.
C24_UpdateFavoritesOnly ==
    (/\ Called
     /\ last.op = "update_favorites"
     /\ last.ok
     /\ last.id \in DOMAIN last.before)
    => IF last.before[last.id].author = last.part
       THEN /\ last.res
            /\ TableNow[last.id].favorites = last.arg
            /\ Restrict(TableNow[last.id],
                        {"title", "reference", "author", "created_at"})
                 = Restrict(last.before[last.id],
                            {"title", "reference", "author", "created_at"})
       ELSE ~last.res /\ TableNow = last.before

\* update_favorites never returns true.
C24_NeverApplied == (Called /\ last.op = "update_favorites") => ~last.res

\* C25: update on an id that is absent from the table returns false and
\* leaves the table without an item of that id, for every schema.
C25_UpdateNeverCreates ==
    (Called /\ last.op = "update" /\ last.id \notin DOMAIN last.before)
    => ~last.res /\ last.id \notin DOMAIN TableNow

\* The same for the schemas with a partition key.
C25_PartitionedNeverCreates ==
    (/\ Called
     /\ last.op = "update"
     /\ partition_key(last.repo) # None
     /\ last.id \notin DOMAIN last.before)
    => ~last.res /\ last.id \notin DOMAIN TableNow

\* C26: create with an id that is already in the table does not replace or
\* alter the stored item.
C26_CreateNeverOverwrites ==
    (Called /\ last.op = "create" /\ last.id \in DOMAIN last.before)
    => TableNow[last.id] = last.before[last.id]

\* C27: delete_batch(entities, partition) on a partitioned schema, the store
\* answering, removes every listed item stored under partition and leaves
\* every other item as it was.
C27_BatchDeleteRespectsOwnership ==
    (/\ Batched
     /\ last.op = "delete_batch"
     /\ last.ok
     /\ partition_key(last.repo) # None)
    => \A i \in DOMAIN last.before :
          IF i \in BatchIds
             /\ last.before[i][partition_key(last.repo)] = last.part
          THEN i \notin DOMAIN TableNow
          ELSE i \in DOMAIN TableNow /\ TableNow[i] = last.before[i]

\* delete_batch on a partitioned schema removes nothing.
C27_NothingRemoved ==
    (Batched /\ last.op = "delete_batch" /\ partition_key(last.repo) # None)
    => TableNow = last.before

\* ------------------------------------------ claims on the table accessors
Ended(p) == manager.calls[p].at \in {"done", "raised"}

\* What C22 says of the ended call of p: it returned a handle on its table,
\* and the handle cached then is on the same table.
HandleReturned(p) ==
    LET c == manager.calls[p]
    IN /\ c.at = "done"
       /\ c.handle.t = "Table"
       /\ c.handle.table = TableName(c.acc)
       /\ manager.tables[c.acc].t = "Table"
       /\ manager.tables[c.acc].table = c.handle.table

\* C22: every call of a table accessor (users, reports, products, images)
\* returns a handle on the accessor's table and leaves such a handle cached;
\* no more handles are made for an accessor than threads raced on its first
\* call.
C22_CachedHandles ==
    /\ \A p \in Procs : Ended(p) => HandleReturned(p)
    /\ \A a \in Accessors : manager.made[a] <= Cardinality(Procs)

\* The same for the accessors whose attribute the class declares.
C22_DeclaredAccessors ==
    /\ \A p \in Procs :
          (Ended(p) /\ manager.calls[p].acc \in Declared) => HandleReturned(p)
    /\ \A a \in Accessors : manager.made[a] <= Cardinality(Procs)

====
